---- MODULE Spec2Model ----
(***************************************************************************)
(* The four conversion tools of the repository as one state machine:       *)
(*   2D/makePOSCARs.py, 2D/writeIDPROP.py  (Schema-A: group/entry/step)    *)
(*   3D/makePOSCARs.py, 3D/writeIDPROP.py  (Schema-B: flat entries list)   *)
(* A behaviour runs the geometry emitter of one schema on an input         *)
(* directory and then, as a second independent process, the label emitter  *)
(* of the same schema on the same directory.                               *)
(*                                                                         *)
(* A string is a sequence of characters; a character is a one-token        *)
(* string.  The token "U+00E9" stands for the single character e-acute,    *)
(* a non-ASCII letter for which Python's str.isalnum() is True.            *)
(***************************************************************************)
EXTENDS Integers, Sequences, FiniteSets, TLC

\* ------------------------------------------------------------------------
\* Bounds of the model
\* ------------------------------------------------------------------------
MaxFiles == 3
MaxGroups == 2
MaxEntries == 2
MaxSteps == 2
MaxLen == 3

\* ------------------------------------------------------------------------
\* Characters and strings
\* ------------------------------------------------------------------------
AsciiLetters ==
  {"a","b","c","d","e","f","g","h","i","j","k","l","m",
   "n","o","p","q","r","s","t","u","v","w","x","y","z",
   "A","B","C","D","E","F","G","H","I","J","K","L","M",
   "N","O","P","Q","R","S","T","U","V","W","X","Y","Z"}

DigitChars == <<"0","1","2","3","4","5","6","7","8","9">>

AsciiDigits == {DigitChars[i] : i \in 1..10}

UnicodeAlnum == {"U+00E9"}

\* str.isalnum() of a one-character string
isalnum(c) == c \in AsciiLetters \cup AsciiDigits \cup UnicodeAlnum

\* the decimal text an f-string writes for a non-negative int
RECURSIVE str(_)
str(n) == IF n < 10 THEN <<DigitChars[n + 1]>>
          ELSE str(n \div 10) \o <<DigitChars[(n % 10) + 1]>>

\* index of the last occurrence of c in s, 0 when there is none
LastIndexOf(s, c) ==
  LET hits == {i \in 1..Len(s) : s[i] = c}
  IN IF hits = {} THEN 0 ELSE CHOOSE i \in hits : \A j \in hits : j <= i

os_path_join(a, b) == a \o <<"/">> \o b

os_path_basename(p) == SubSeq(p, LastIndexOf(p, "/") + 1, Len(p))

\* os.path.splitext(p)[0] for a path without separators: everything before
\* the last dot, unless only dots precede it
os_path_splitext_root(p) ==
  LET d == LastIndexOf(p, ".")
  IN IF d > 0 /\ \E i \in 1..(d - 1) : p[i] # "."
     THEN SubSeq(p, 1, d - 1)
     ELSE p

\* ------------------------------------------------------------------------
\* sanitize_filename: the four copies
\* ------------------------------------------------------------------------
\* a faulty variant: the loop stops one character early
make2D_sanitize_filename_short(name) ==
  [i \in 1..(Len(name) - 1) |->
     IF isalnum(name[i]) \/ name[i] \in {"_", "-"} THEN name[i] ELSE "_"]

make2D_sanitize_filename(name) ==
  [i \in 1..Len(name) |->
     IF isalnum(name[i]) \/ name[i] \in {"_", "-"} THEN name[i] ELSE "_"]

write2D_sanitize_filename(name) ==
  [i \in 1..Len(name) |->
     IF isalnum(name[i]) \/ name[i] \in {"_", "-"} THEN name[i] ELSE "_"]

make3D_sanitize_filename(name) ==
  [i \in 1..Len(name) |->
     IF isalnum(name[i]) \/ name[i] \in {"_", "-"} THEN name[i] ELSE "_"]

write3D_sanitize_filename(name) ==
  [i \in 1..Len(name) |->
     IF isalnum(name[i]) \/ name[i] \in {"_", "-"} THEN name[i] ELSE "_"]

\* ------------------------------------------------------------------------
\* JSON values
\* ------------------------------------------------------------------------
Absent == [kind |-> "absent"]          \* the key is not in the mapping
Null == [kind |-> "null"]
Num(n) == [kind |-> "num", val |-> n]
Text(s) == [kind |-> "str", val |-> s]
List(items) == [kind |-> "list", items |-> items]
\* a non-empty structure mapping; ok says whether Structure.from_dict
\* accepts it
StructureDict(ok) == [kind |-> "dict", ok |-> ok]

\* Python truthiness; dict.get of an absent key gives None
Truthy(v) ==
  CASE v.kind = "absent" -> FALSE
    [] v.kind = "null" -> FALSE
    [] v.kind = "num" -> v.val # 0
    [] v.kind = "str" -> v.val # <<>>
    [] v.kind = "list" -> v.items # <<>>
    [] v.kind = "dict" -> TRUE

\* x is None, for the result of dict.get
IsNone(v) == v.kind \in {"absent", "null"}

\* fixed strings of the programs
POSCAR_ == <<"P","O","S","C","A","R","_">>
key_empty == <<"k","e","y","_","e","m","p","t","y">>
dot_vasp == <<".","v","a","s","p">>
dot_json == <<".","j","s","o","n">>
entry_ == <<"e","n","t","r","y","_">>

\* ------------------------------------------------------------------------
\* Filename derivation, Schema-A (2D)
\* ------------------------------------------------------------------------
entry_tag == <<"_","e","n","t","r","y">>
step_tag == <<"_","s","t","e","p">>

\* a faulty variant: the placeholder for an empty result is missing
make2D_sanitized_top_key_no_placeholder(top_key) ==
  make2D_sanitize_filename(top_key)

\* sanitize_filename(top_key) or "key_empty"
make2D_sanitized_top_key(top_key) ==
  LET s == make2D_sanitize_filename(top_key)
  IN IF s # <<>> THEN s ELSE key_empty

make2D_sanitized_base_filename(file_path) ==
  make2D_sanitize_filename(os_path_splitext_root(os_path_basename(file_path)))

make2D_poscar_filename(filename_prefix, file_path, top_key, entry_index, step_index) ==
  filename_prefix \o make2D_sanitized_base_filename(file_path) \o <<"_">>
    \o make2D_sanitized_top_key(top_key)
    \o entry_tag \o str(entry_index) \o step_tag \o str(step_index) \o dot_vasp

write2D_sanitized_top_key(top_key) ==
  LET s == write2D_sanitize_filename(top_key)
  IN IF s # <<>> THEN s ELSE key_empty

write2D_sanitized_base_filename(file_path) ==
  write2D_sanitize_filename(os_path_splitext_root(os_path_basename(file_path)))

\* the label emitter takes no prefix argument: "POSCAR_" is part of the f-string
write2D_poscar_filename(file_path, top_key, entry_index, step_index) ==
  POSCAR_ \o write2D_sanitized_base_filename(file_path) \o <<"_">>
    \o write2D_sanitized_top_key(top_key)
    \o entry_tag \o str(entry_index) \o step_tag \o str(step_index) \o dot_vasp

\* ------------------------------------------------------------------------
\* Filename derivation, Schema-B (3D)
\* ------------------------------------------------------------------------
jsonNum_tag == <<"_","j","s","o","n","N","u","m","_">>
entryNum_tag == <<"_","e","n","t","r","y","N","u","m">>

\* a faulty variant: an empty identifier is not replaced by entry_<idx>
make3D_mat_id_no_fallback(entry, idx) ==
  IF entry.data.kind = "absent" THEN entry_ \o str(idx)
  ELSE IF entry.data.mat_id.kind = "absent" THEN entry_ \o str(idx)
  ELSE entry.data.mat_id.val

\* entry.get('data', {}).get('mat_id', f'entry_{idx}'), then the fallback
\* for a falsy identifier
make3D_mat_id(entry, idx) ==
  LET dflt == Text(entry_ \o str(idx))
      got == IF entry.data.kind = "absent" THEN dflt
             ELSE IF entry.data.mat_id.kind = "absent" THEN dflt
             ELSE entry.data.mat_id
  IN IF ~Truthy(got) THEN dflt.val ELSE got.val

make3D_poscar_filename(filename_prefix, index, idx, entry) ==
  filename_prefix \o jsonNum_tag \o str(index) \o entryNum_tag \o str(idx)
    \o <<"_">> \o make3D_sanitize_filename(make3D_mat_id(entry, idx)) \o dot_vasp

write3D_mat_id(entry, idx) ==
  LET dflt == Text(entry_ \o str(idx))
      got == IF entry.data.kind = "absent" THEN dflt
             ELSE IF entry.data.mat_id.kind = "absent" THEN dflt
             ELSE entry.data.mat_id
  IN IF ~Truthy(got) THEN dflt.val ELSE got.val

write3D_poscar_filename(filename_prefix, index, idx, entry) ==
  filename_prefix \o jsonNum_tag \o str(index) \o entryNum_tag \o str(idx)
    \o <<"_">> \o write3D_sanitize_filename(write3D_mat_id(entry, idx)) \o dot_vasp

\* entry['data']['band_gap_dir'], entry['data']['band_gap_ind'] and their
\* min(): a missing key raises KeyError, a null operand makes min() raise
\* TypeError
write3D_label(entry) ==
  IF entry.data.kind = "absent" THEN [kind |-> "KeyError"]
  ELSE IF entry.data.band_gap_dir.kind = "absent" THEN [kind |-> "KeyError"]
  ELSE IF entry.data.band_gap_ind.kind = "absent" THEN [kind |-> "KeyError"]
  ELSE IF entry.data.band_gap_dir.kind # "num" \/ entry.data.band_gap_ind.kind # "num"
       THEN [kind |-> "TypeError"]
  ELSE IF entry.data.band_gap_ind.val < entry.data.band_gap_dir.val
       THEN entry.data.band_gap_ind
       ELSE entry.data.band_gap_dir

\* ------------------------------------------------------------------------
\* Traversals: the loop nests of the four main() functions, as the sequence
\* of loop-body executions they perform on one loaded document
\* ------------------------------------------------------------------------
RECURSIVE Flatten(_)
Flatten(ss) == IF ss = <<>> THEN <<>> ELSE Head(ss) \o Flatten(Tail(ss))

\* entry.get('steps', [])
entry_get_steps(entry) ==
  IF entry.steps.kind = "absent" THEN List(<<>>) ELSE entry.steps

\* a faulty variant: an entry without steps ends the entry loop of its group
\* (break in place of continue)
make2D_traverse_break(data) ==
  Flatten([g \in 1..Len(data.groups) |->
    LET top_key == data.groups[g].key
        entries == data.groups[g].entries
    IN IF ~Truthy(entries) THEN <<>>
       ELSE Flatten([e \in 1..Len(entries.items) |->
         LET steps == entry_get_steps(entries.items[e])
         IN IF \E f \in 1..e : ~Truthy(entry_get_steps(entries.items[f])) THEN <<>>
            ELSE [s \in 1..Len(steps.items) |->
                   [top_key |-> top_key, entry_index |-> e - 1,
                    step_index |-> s - 1, step |-> steps.items[s]]]])])

make2D_traverse(data) ==
  Flatten([g \in 1..Len(data.groups) |->
    LET top_key == data.groups[g].key
        entries == data.groups[g].entries
    IN IF ~Truthy(entries) THEN <<>>
       ELSE Flatten([e \in 1..Len(entries.items) |->
         LET steps == entry_get_steps(entries.items[e])
         IN IF ~Truthy(steps) THEN <<>>
            ELSE [s \in 1..Len(steps.items) |->
                   [top_key |-> top_key, entry_index |-> e - 1,
                    step_index |-> s - 1, step |-> steps.items[s]]]])])

write2D_traverse(data) ==
  Flatten([g \in 1..Len(data.groups) |->
    LET top_key == data.groups[g].key
        entries == data.groups[g].entries
    IN IF ~Truthy(entries) THEN <<>>
       ELSE Flatten([e \in 1..Len(entries.items) |->
         LET steps == entry_get_steps(entries.items[e])
         IN IF ~Truthy(steps) THEN <<>>
            ELSE [s \in 1..Len(steps.items) |->
                   [top_key |-> top_key, entry_index |-> e - 1,
                    step_index |-> s - 1, step |-> steps.items[s]]]])])

\* data.get('entries', [])
data_get_entries(data) ==
  IF data.entries.kind = "absent" THEN List(<<>>) ELSE data.entries

\* enumerate(entries, start=1)
make3D_traverse(entries) ==
  [i \in 1..Len(entries.items) |-> [idx |-> i, entry |-> entries.items[i]]]

write3D_traverse(entries) ==
  [i \in 1..Len(entries.items) |-> [idx |-> i, entry |-> entries.items[i]]]

\* ------------------------------------------------------------------------
\* Inputs: the documents, directories and command lines the runs are given
\* ------------------------------------------------------------------------
\* Schema-A steps
StepGood == [structure |-> StructureDict(TRUE), energy |-> Num(-5)]
StepZeroEnergy == [structure |-> StructureDict(TRUE), energy |-> Num(0)]
StepNoStructure == [structure |-> Absent, energy |-> Num(-5)]
StepBadStructure == [structure |-> StructureDict(FALSE), energy |-> Num(-5)]
StepNoEnergy == [structure |-> StructureDict(TRUE), energy |-> Absent]
StepNullEnergy == [structure |-> StructureDict(TRUE), energy |-> Null]
StepTextEnergy == [structure |-> StructureDict(TRUE), energy |-> Text(<<"n","a">>)]

StepKinds ==
  {StepGood, StepZeroEnergy, StepNoStructure, StepBadStructure,
   StepNoEnergy, StepNullEnergy, StepTextEnergy}

\* group keys, in the order the groups appear in a document
GroupKeyList ==
  << <<"g","A">>, <<>>, <<"a","/","b">>, <<"a","_","b">>, <<"U+00E9">> >>

GroupKey(g) ==
  IF g <= Len(GroupKeyList) THEN GroupKeyList[g] ELSE <<"g">> \o str(g)

NoEntry == <<0, 0>>

\* a Schema-A document of G groups, E entries per group and S steps per
\* entry; the first step of every entry is of kind k, the others are good;
\* the entry at position emptied (group, entry), if any, has no steps
DocA(G, E, S, k, emptied) ==
  [kind |-> "object",
   groups |-> [g \in 1..G |->
     [key |-> GroupKey(g),
      entries |-> List([e \in 1..E |->
        [steps |-> IF <<g, e>> = emptied THEN List(<<>>)
                   ELSE List([s \in 1..S |-> IF s = 1 THEN k ELSE StepGood])]])]]]

\* a file that json.load rejects
Malformed == [kind |-> "invalid_json"]

\* a Schema-A document whose only group has an empty entries list
DocAEmptyGroup ==
  [kind |-> "object", groups |-> << [key |-> GroupKey(1), entries |-> List(<<>>)] >>]

\* a Schema-A document with an entry that has no 'steps' key
DocANoStepsKey ==
  [kind |-> "object",
   groups |-> << [key |-> GroupKey(1),
                  entries |-> List(<< [steps |-> Absent],
                                      [steps |-> List(<<StepGood>>)] >>)] >>]

ShapedDocsA ==
  {DocA(G, E, S, k, emptied) :
     G \in 1..MaxGroups, E \in 1..MaxEntries, S \in 1..MaxSteps, k \in StepKinds,
     emptied \in {NoEntry} \cup ((1..MaxGroups) \X (1..MaxEntries))}

BatchContentsA == {Malformed, DocA(1, 1, 1, StepGood, NoEntry), DocAEmptyGroup}

\* Schema-B entries
DataDict(mat_id, band_gap_dir, band_gap_ind) ==
  [kind |-> "dict", mat_id |-> mat_id,
   band_gap_dir |-> band_gap_dir, band_gap_ind |-> band_gap_ind]

mp_1 == <<"m","p","-","1">>

EntryKinds ==
  {[structure |-> StructureDict(TRUE), data |-> DataDict(Text(mp_1), Num(12), Num(8))],
   [structure |-> StructureDict(TRUE), data |-> DataDict(Absent, Num(3), Num(8))],
   [structure |-> StructureDict(TRUE), data |-> DataDict(Text(<<>>), Num(0), Num(0))],
   [structure |-> StructureDict(TRUE), data |-> DataDict(Text(<<"a","/","b">>), Num(12), Num(8))],
   [structure |-> Absent, data |-> DataDict(Text(mp_1), Num(12), Num(8))],
   [structure |-> StructureDict(FALSE), data |-> DataDict(Text(mp_1), Num(12), Num(8))],
   [structure |-> StructureDict(TRUE), data |-> DataDict(Text(mp_1), Absent, Num(8))],
   [structure |-> StructureDict(TRUE), data |-> DataDict(Text(mp_1), Num(12), Null)],
   [structure |-> StructureDict(TRUE), data |-> Absent]}

DocB(entries) == [kind |-> "object", entries |-> List(entries)]

DocBNoEntriesKey == [kind |-> "object", entries |-> Absent]

ShapedDocsB ==
  {DocB(es) : es \in UNION {[1..n -> EntryKinds] : n \in 0..MaxEntries}}

BatchContentsB ==
  {Malformed, DocBNoEntriesKey,
   DocB(<< [structure |-> StructureDict(TRUE),
            data |-> DataDict(Text(mp_1), Num(12), Num(8))] >>)}

\* file names, in sorted order
FileNameList ==
  << <<"a",".","b">> \o dot_json, <<"a","_","b">> \o dot_json,
     <<"s">> \o dot_json, <<"t">> \o dot_json >>

FileName(i) ==
  IF i <= Len(FileNameList) THEN FileNameList[i] ELSE <<"u">> \o str(i) \o dot_json

\* a directory listing: the *.json files of the input directory in the
\* order sorted(glob.glob(pattern)) returns them
Listing(contents) ==
  [i \in 1..Len(contents) |-> [name |-> FileName(i), content |-> contents[i]]]

Batches(contentSet) == UNION {[1..n -> contentSet] : n \in 0..MaxFiles}

DirectoriesA ==
  {Listing(c) : c \in Batches(BatchContentsA)}
    \cup {Listing(<<d>>) : d \in ShapedDocsA \cup {DocANoStepsKey}}

DirectoriesB ==
  {Listing(c) : c \in Batches(BatchContentsB)}
    \cup {Listing(<<d>>) : d \in ShapedDocsB}

input_dir == <<"i","n">>

\* -f/--filename_prefix: the default and a prefix of the user's
Prefixes == {POSCAR_, <<"r","/">>}

\* ------------------------------------------------------------------------
\* State
\* ------------------------------------------------------------------------
VARIABLES
  schema,           \* "A" (2D tools) or "B" (3D tools); "none" in SpecSanitize
  filename_prefix,  \* args.filename_prefix
  mkdirOk,          \* the output directory exists or os.makedirs can create it
  dir,              \* the *.json files of the input directory, sorted by name
  tool,             \* the process that runs: "make" (makePOSCARs.py), then
                    \* "write" (writeIDPROP.py)
  pc,               \* its position in main(): "start", "files", "exited"
  index,            \* number of input files the file loop has taken
  queue,            \* loop-body executions left for the current file
  derived,          \* poscar_filename values the geometry emitter computed
  files,            \* names of the geometry files in the output directory
  csv,              \* rows of id_prop.csv
  skipped,          \* the label emitter's counter
  skipLog,          \* per tool: records it passed over with a message
  exit,             \* per tool: "none", "zero" or "nonzero" exit status
  visited,          \* <<tool, key>> of every loop-body execution so far
  processed,        \* <<tool, file index>> of every file whose document was traversed
  sanCalls,         \* [arg, res] of the sanitize_filename calls made so far
  sanCopy,          \* SpecSanitize: the copy of sanitize_filename under test
  sanTrace          \* SpecSanitize: an input string and the results of
                    \* applying the copy to it again and again

inputs == <<schema, filename_prefix, mkdirOk, dir>>
san == <<sanCopy, sanTrace>>
vars == <<schema, filename_prefix, mkdirOk, dir, tool, pc, index, queue, derived,
          files, csv, skipped, skipLog, exit, visited, processed, sanCalls,
          sanCopy, sanTrace>>

\* sorted(glob.glob(os.path.join(input_dir, "*.json")))
json_files == [i \in 1..Len(dir) |-> os_path_join(input_dir, dir[i].name)]

Init ==
  /\ schema \in {"A", "B"}
  /\ filename_prefix \in Prefixes
  /\ mkdirOk \in BOOLEAN
  /\ dir \in (IF schema = "A" THEN DirectoriesA ELSE DirectoriesB)
  /\ tool = "make"
  /\ pc = "start"
  /\ index = 0
  /\ queue = <<>>
  /\ derived = <<>>
  /\ files = {}
  /\ csv = <<>>
  /\ skipped = 0
  /\ skipLog = [make |-> 0, write |-> 0]
  /\ exit = [make |-> "none", write |-> "none"]
  /\ visited = {}
  /\ processed = {}
  /\ sanCalls = {}
  /\ sanCopy = "none"
  /\ sanTrace = <<>>

\* ------------------------------------------------------------------------
\* Library calls
\* ------------------------------------------------------------------------
\* 2D load_json: the parsed document, or None when json.load raises
make2D_load_json(i) ==
  IF dir[i].content.kind = "invalid_json" THEN Null ELSE dir[i].content

write2D_load_json(i) ==
  IF dir[i].content.kind = "invalid_json" THEN Null ELSE dir[i].content

\* 3D load_json: the parsed document, or exit(1) when json.load raises
make3D_load_json(i) ==
  IF dir[i].content.kind = "invalid_json" THEN [kind |-> "exit"] ELSE dir[i].content

write3D_load_json(i) ==
  IF dir[i].content.kind = "invalid_json" THEN [kind |-> "exit"] ELSE dir[i].content

\* create_output_directory: TRUE when it returns, FALSE when it exits with 1
make2D_create_output_directory == mkdirOk

make3D_create_output_directory == mkdirOk

\* generate_poscar into an output directory that has no subdirectories: the
\* write succeeds when the name is a single path segment; otherwise the open
\* fails, the exception is caught and an error is printed
generate_poscar(poscar_filename) ==
  \A i \in 1..Len(poscar_filename) : poscar_filename[i] # "/"

\* ------------------------------------------------------------------------
\* 2D/makePOSCARs.py
\* ------------------------------------------------------------------------
\* main() up to the file loop: create the output directory, list the inputs
make2D_main_start ==
  /\ schema = "A" /\ tool = "make" /\ pc = "start"
  /\ IF ~make2D_create_output_directory
       THEN pc' = "exited" /\ exit' = [exit EXCEPT !.make = "nonzero"]
       ELSE IF json_files = <<>>
         THEN pc' = "exited" /\ exit' = [exit EXCEPT !.make = "nonzero"]
         ELSE pc' = "files" /\ UNCHANGED exit
  /\ UNCHANGED <<inputs, san, tool, index, queue, derived, files, csv, skipped,
                 skipLog, visited, processed, sanCalls>>

\* one iteration of the file loop, up to the traversal of the document
make2D_main_file ==
  /\ schema = "A" /\ tool = "make" /\ pc = "files"
  /\ queue = <<>> /\ index < Len(json_files)
  /\ LET data == make2D_load_json(index + 1)
     IN IF IsNone(data)
          THEN UNCHANGED <<queue, processed>>
          ELSE /\ queue' = [i \in 1..Len(make2D_traverse(data)) |->
                             [file_index |-> index, file_path |-> json_files[index + 1],
                              item |-> make2D_traverse(data)[i]]]
               /\ processed' = processed \cup {<<"make", index>>}
  /\ index' = index + 1
  /\ UNCHANGED <<inputs, san, tool, pc, derived, files, csv, skipped, skipLog,
                 exit, visited, sanCalls>>

\* the body of the step loop
make2D_main_step ==
  /\ schema = "A" /\ tool = "make" /\ pc = "files"
  /\ queue # <<>>
  /\ LET q == Head(queue)
         it == q.item
         key == <<q.file_index, it.top_key, it.entry_index, it.step_index>>
         structure_dict == it.step.structure
         poscar_filename == make2D_poscar_filename(filename_prefix, q.file_path,
                              it.top_key, it.entry_index, it.step_index)
     IN /\ visited' = visited \cup {<<"make", key>>}
        /\ IF ~Truthy(structure_dict) \/ ~structure_dict.ok
             THEN /\ skipLog' = [skipLog EXCEPT !.make = @ + 1]
                  /\ UNCHANGED <<derived, files, sanCalls>>
             ELSE /\ derived' = Append(derived,
                       [key |-> key, name |-> poscar_filename,
                        parts |-> <<make2D_sanitized_base_filename(q.file_path),
                                    make2D_sanitized_top_key(it.top_key)>>])
                  /\ sanCalls' = sanCalls \cup
                       {[arg |-> it.top_key,
                         res |-> make2D_sanitize_filename(it.top_key)],
                        [arg |-> os_path_splitext_root(os_path_basename(q.file_path)),
                         res |-> make2D_sanitized_base_filename(q.file_path)]}
                  /\ files' = IF generate_poscar(poscar_filename)
                                THEN files \cup {poscar_filename} ELSE files
                  /\ UNCHANGED skipLog
  /\ queue' = Tail(queue)
  /\ UNCHANGED <<inputs, san, tool, pc, index, csv, skipped, exit, processed>>

\* the file loop is over: the closing message, exit status 0
make2D_main_end ==
  /\ schema = "A" /\ tool = "make" /\ pc = "files"
  /\ queue = <<>> /\ index = Len(json_files)
  /\ pc' = "exited" /\ exit' = [exit EXCEPT !.make = "zero"]
  /\ UNCHANGED <<inputs, san, tool, index, queue, derived, files, csv, skipped,
                 skipLog, visited, processed, sanCalls>>

\* ------------------------------------------------------------------------
\* 2D/writeIDPROP.py
\* ------------------------------------------------------------------------
\* the top-level keys whose sanitized form the file loop computes: those of
\* the groups with a non-empty entries list
write2D_sanitized_keys(data) ==
  {data.groups[g].key : g \in {h \in 1..Len(data.groups) : Truthy(data.groups[h].entries)}}

\* main() up to the file loop: os.makedirs is not guarded, so a failure is
\* an uncaught exception; then the CSV is opened and the inputs are listed
write2D_main_start ==
  /\ schema = "A" /\ tool = "write" /\ pc = "start"
  /\ IF ~mkdirOk
       THEN pc' = "exited" /\ exit' = [exit EXCEPT !.write = "nonzero"]
       ELSE IF json_files = <<>>
         THEN pc' = "exited" /\ exit' = [exit EXCEPT !.write = "nonzero"]
         ELSE pc' = "files" /\ UNCHANGED exit
  /\ UNCHANGED <<inputs, san, tool, index, queue, derived, files, csv, skipped,
                 skipLog, visited, processed, sanCalls>>

write2D_main_file ==
  /\ schema = "A" /\ tool = "write" /\ pc = "files"
  /\ queue = <<>> /\ index < Len(json_files)
  /\ LET data == write2D_load_json(index + 1)
     IN IF IsNone(data)
          THEN UNCHANGED <<queue, processed, sanCalls>>
          ELSE /\ queue' = [i \in 1..Len(write2D_traverse(data)) |->
                             [file_index |-> index, file_path |-> json_files[index + 1],
                              item |-> write2D_traverse(data)[i]]]
               /\ processed' = processed \cup {<<"write", index>>}
               /\ sanCalls' = sanCalls \cup
                    {[arg |-> os_path_splitext_root(os_path_basename(json_files[index + 1])),
                      res |-> write2D_sanitized_base_filename(json_files[index + 1])]}
                    \cup {[arg |-> k, res |-> write2D_sanitize_filename(k)] :
                            k \in write2D_sanitized_keys(data)}
  /\ index' = index + 1
  /\ UNCHANGED <<inputs, san, tool, pc, derived, files, csv, skipped, skipLog,
                 exit, visited>>

write2D_main_step ==
  /\ schema = "A" /\ tool = "write" /\ pc = "files"
  /\ queue # <<>>
  /\ LET q == Head(queue)
         it == q.item
         key == <<q.file_index, it.top_key, it.entry_index, it.step_index>>
         structure_dict == it.step.structure
         energy == it.step.energy
         poscar_filename == write2D_poscar_filename(q.file_path, it.top_key,
                              it.entry_index, it.step_index)
     IN /\ visited' = visited \cup {<<"write", key>>}
        /\ IF ~Truthy(structure_dict) \/ IsNone(energy)
             THEN /\ skipped' = skipped + 1
                  /\ skipLog' = [skipLog EXCEPT !.write = @ + 1]
                  /\ UNCHANGED csv
             ELSE /\ csv' = Append(csv,
                       [key |-> key, name |-> poscar_filename, label |-> energy,
                        parts |-> <<write2D_sanitized_base_filename(q.file_path),
                                    write2D_sanitized_top_key(it.top_key)>>])
                  /\ UNCHANGED <<skipped, skipLog>>
  /\ queue' = Tail(queue)
  /\ UNCHANGED <<inputs, san, tool, pc, index, derived, files, exit, processed,
                 sanCalls>>

\* the file loop is over: the summary with the skip counter, exit status 0
write2D_main_end ==
  /\ schema = "A" /\ tool = "write" /\ pc = "files"
  /\ queue = <<>> /\ index = Len(json_files)
  /\ pc' = "exited" /\ exit' = [exit EXCEPT !.write = "zero"]
  /\ UNCHANGED <<inputs, san, tool, index, queue, derived, files, csv, skipped,
                 skipLog, visited, processed, sanCalls>>

\* ------------------------------------------------------------------------
\* 3D/makePOSCARs.py
\* ------------------------------------------------------------------------
\* main() up to the file loop: only the arguments are read
make3D_main_start ==
  /\ schema = "B" /\ tool = "make" /\ pc = "start"
  /\ pc' = "files"
  /\ UNCHANGED <<inputs, san, tool, index, queue, derived, files, csv, skipped,
                 skipLog, exit, visited, processed, sanCalls>>

\* a faulty variant: a document without entries is passed over and the file
\* loop goes on (continue in place of exit(1))
make3D_main_file_continue ==
  /\ schema = "B" /\ tool = "make" /\ pc = "files"
  /\ queue = <<>> /\ index < Len(json_files)
  /\ LET data == make3D_load_json(index + 1)
     IN IF data.kind = "exit" \/ ~make3D_create_output_directory
          THEN /\ pc' = "exited" /\ exit' = [exit EXCEPT !.make = "nonzero"]
               /\ UNCHANGED <<queue, processed>>
          ELSE IF ~Truthy(data_get_entries(data))
          THEN UNCHANGED <<queue, processed, pc, exit>>
          ELSE /\ queue' = [i \in 1..Len(make3D_traverse(data_get_entries(data))) |->
                             [file_index |-> index,
                              item |-> make3D_traverse(data_get_entries(data))[i]]]
               /\ processed' = processed \cup {<<"make", index>>}
               /\ UNCHANGED <<pc, exit>>
  /\ index' = index + 1
  /\ UNCHANGED <<inputs, san, tool, derived, files, csv, skipped, skipLog,
                 visited, sanCalls>>

\* one iteration of the file loop, up to the entry loop: load_json, then
\* create_output_directory, then the check of 'entries'; each may exit(1)
make3D_main_file ==
  /\ schema = "B" /\ tool = "make" /\ pc = "files"
  /\ queue = <<>> /\ index < Len(json_files)
  /\ LET data == make3D_load_json(index + 1)
     IN IF data.kind = "exit" \/ ~make3D_create_output_directory
             \/ ~Truthy(data_get_entries(data))
          THEN /\ pc' = "exited" /\ exit' = [exit EXCEPT !.make = "nonzero"]
               /\ UNCHANGED <<queue, processed>>
          ELSE /\ queue' = [i \in 1..Len(make3D_traverse(data_get_entries(data))) |->
                             [file_index |-> index,
                              item |-> make3D_traverse(data_get_entries(data))[i]]]
               /\ processed' = processed \cup {<<"make", index>>}
               /\ UNCHANGED <<pc, exit>>
  /\ index' = index + 1
  /\ UNCHANGED <<inputs, san, tool, derived, files, csv, skipped, skipLog,
                 visited, sanCalls>>

\* the body of the entry loop
make3D_main_entry ==
  /\ schema = "B" /\ tool = "make" /\ pc = "files"
  /\ queue # <<>>
  /\ LET q == Head(queue)
         idx == q.item.idx
         entry == q.item.entry
         key == <<q.file_index, idx>>
         structure_dict == entry.structure
         mat_id == make3D_mat_id(entry, idx)
         poscar_filename == make3D_poscar_filename(filename_prefix, q.file_index,
                              idx, entry)
     IN /\ visited' = visited \cup {<<"make", key>>}
        /\ IF ~Truthy(structure_dict) \/ ~structure_dict.ok
             THEN /\ skipLog' = [skipLog EXCEPT !.make = @ + 1]
                  /\ UNCHANGED <<derived, files, sanCalls>>
             ELSE /\ derived' = Append(derived,
                       [key |-> key, name |-> poscar_filename,
                        parts |-> <<make3D_sanitize_filename(mat_id)>>])
                  /\ sanCalls' = sanCalls \cup
                       {[arg |-> mat_id, res |-> make3D_sanitize_filename(mat_id)]}
                  /\ files' = IF generate_poscar(poscar_filename)
                                THEN files \cup {poscar_filename} ELSE files
                  /\ UNCHANGED skipLog
  /\ queue' = Tail(queue)
  /\ UNCHANGED <<inputs, san, tool, pc, index, csv, skipped, exit, processed>>

\* the file loop is over: main() returns, exit status 0
make3D_main_end ==
  /\ schema = "B" /\ tool = "make" /\ pc = "files"
  /\ queue = <<>> /\ index = Len(json_files)
  /\ pc' = "exited" /\ exit' = [exit EXCEPT !.make = "zero"]
  /\ UNCHANGED <<inputs, san, tool, index, queue, derived, files, csv, skipped,
                 skipLog, visited, processed, sanCalls>>

\* ------------------------------------------------------------------------
\* 3D/writeIDPROP.py
\* ------------------------------------------------------------------------
\* main() up to the file loop: ./id_prop.csv is opened, the counter is zero
write3D_main_start ==
  /\ schema = "B" /\ tool = "write" /\ pc = "start"
  /\ pc' = "files"
  /\ UNCHANGED <<inputs, san, tool, index, queue, derived, files, csv, skipped,
                 skipLog, exit, visited, processed, sanCalls>>

\* one iteration of the file loop, up to the entry loop: load_json, then the
\* check of 'entries'; each may exit(1)
write3D_main_file ==
  /\ schema = "B" /\ tool = "write" /\ pc = "files"
  /\ queue = <<>> /\ index < Len(json_files)
  /\ LET data == write3D_load_json(index + 1)
     IN IF data.kind = "exit" \/ ~Truthy(data_get_entries(data))
          THEN /\ pc' = "exited" /\ exit' = [exit EXCEPT !.write = "nonzero"]
               /\ UNCHANGED <<queue, processed>>
          ELSE /\ queue' = [i \in 1..Len(write3D_traverse(data_get_entries(data))) |->
                             [file_index |-> index,
                              item |-> write3D_traverse(data_get_entries(data))[i]]]
               /\ processed' = processed \cup {<<"write", index>>}
               /\ UNCHANGED <<pc, exit>>
  /\ index' = index + 1
  /\ UNCHANGED <<inputs, san, tool, derived, files, csv, skipped, skipLog,
                 visited, sanCalls>>

\* the body of the entry loop: the filename, then the row inside
\* try/except KeyError; a TypeError from min() is not caught and ends the run
write3D_main_entry ==
  /\ schema = "B" /\ tool = "write" /\ pc = "files"
  /\ queue # <<>>
  /\ LET q == Head(queue)
         idx == q.item.idx
         entry == q.item.entry
         key == <<q.file_index, idx>>
         mat_id == write3D_mat_id(entry, idx)
         poscar_filename == write3D_poscar_filename(filename_prefix, q.file_index,
                              idx, entry)
         label == write3D_label(entry)
     IN /\ visited' = visited \cup {<<"write", key>>}
        /\ sanCalls' = sanCalls \cup
             {[arg |-> mat_id, res |-> write3D_sanitize_filename(mat_id)]}
        /\ CASE label.kind = "KeyError" ->
                  /\ skipped' = skipped + 1
                  /\ skipLog' = [skipLog EXCEPT !.write = @ + 1]
                  /\ queue' = Tail(queue)
                  /\ UNCHANGED <<csv, pc, exit>>
             [] label.kind = "TypeError" ->
                  /\ pc' = "exited" /\ exit' = [exit EXCEPT !.write = "nonzero"]
                  /\ queue' = <<>>
                  /\ UNCHANGED <<csv, skipped, skipLog>>
             [] OTHER ->
                  /\ csv' = Append(csv,
                       [key |-> key, name |-> poscar_filename, label |-> label,
                        parts |-> <<write3D_sanitize_filename(mat_id)>>])
                  /\ queue' = Tail(queue)
                  /\ UNCHANGED <<skipped, skipLog, pc, exit>>
  /\ UNCHANGED <<inputs, san, tool, index, derived, files, processed>>

\* the file loop is over: the marker file named after the counter is
\* written, exit status 0
write3D_main_end ==
  /\ schema = "B" /\ tool = "write" /\ pc = "files"
  /\ queue = <<>> /\ index = Len(json_files)
  /\ pc' = "exited" /\ exit' = [exit EXCEPT !.write = "zero"]
  /\ UNCHANGED <<inputs, san, tool, index, queue, derived, files, csv, skipped,
                 skipLog, visited, processed, sanCalls>>

\* ------------------------------------------------------------------------
\* The second process: once the geometry emitter has exited, the label
\* emitter of the same schema is started on the same input directory
\* ------------------------------------------------------------------------
run_label_emitter ==
  /\ schema \in {"A", "B"} /\ tool = "make" /\ pc = "exited"
  /\ tool' = "write" /\ pc' = "start" /\ index' = 0 /\ queue' = <<>>
  /\ UNCHANGED <<inputs, san, derived, files, csv, skipped, skipLog, exit,
                 visited, processed, sanCalls>>

Next ==
  \/ make2D_main_start \/ make2D_main_file \/ make2D_main_step \/ make2D_main_end
  \/ write2D_main_start \/ write2D_main_file \/ write2D_main_step \/ write2D_main_end
  \/ make3D_main_start \/ make3D_main_file \/ make3D_main_entry \/ make3D_main_end
  \/ write3D_main_start \/ write3D_main_file \/ write3D_main_entry \/ write3D_main_end
  \/ run_label_emitter

Spec == Init /\ [][Next]_vars

\* ------------------------------------------------------------------------
\* SpecSanitize: one copy of sanitize_filename applied to a string and then
\* to its own result
\* ------------------------------------------------------------------------
SanChars == {"a", "Z", "7", "_", "-", "/", ".", " ", "U+00E9"}

SanStrings == UNION {[1..n -> SanChars] : n \in 0..MaxLen}

InitSanitize ==
  /\ schema = "none"
  /\ filename_prefix = POSCAR_
  /\ mkdirOk = TRUE
  /\ dir = <<>>
  /\ tool = "write"
  /\ pc = "exited"
  /\ index = 0
  /\ queue = <<>>
  /\ derived = <<>>
  /\ files = {}
  /\ csv = <<>>
  /\ skipped = 0
  /\ skipLog = [make |-> 0, write |-> 0]
  /\ exit = [make |-> "none", write |-> "none"]
  /\ visited = {}
  /\ processed = {}
  /\ sanCalls = {}
  /\ sanCopy \in {"make2D", "write2D", "make3D", "write3D"}
  /\ \E s \in SanStrings : sanTrace = <<s>>

notSan == <<schema, filename_prefix, mkdirOk, dir, tool, pc, index, queue, derived,
            files, csv, skipped, skipLog, exit, visited, processed, sanCalls>>

make2D_sanitize_call ==
  /\ sanCopy = "make2D" /\ Len(sanTrace) < 3
  /\ sanTrace' = Append(sanTrace, make2D_sanitize_filename(sanTrace[Len(sanTrace)]))
  /\ UNCHANGED <<notSan, sanCopy>>

write2D_sanitize_call ==
  /\ sanCopy = "write2D" /\ Len(sanTrace) < 3
  /\ sanTrace' = Append(sanTrace, write2D_sanitize_filename(sanTrace[Len(sanTrace)]))
  /\ UNCHANGED <<notSan, sanCopy>>

make3D_sanitize_call ==
  /\ sanCopy = "make3D" /\ Len(sanTrace) < 3
  /\ sanTrace' = Append(sanTrace, make3D_sanitize_filename(sanTrace[Len(sanTrace)]))
  /\ UNCHANGED <<notSan, sanCopy>>

write3D_sanitize_call ==
  /\ sanCopy = "write3D" /\ Len(sanTrace) < 3
  /\ sanTrace' = Append(sanTrace, write3D_sanitize_filename(sanTrace[Len(sanTrace)]))
  /\ UNCHANGED <<notSan, sanCopy>>

NextSanitize ==
  \/ make2D_sanitize_call \/ write2D_sanitize_call
  \/ make3D_sanitize_call \/ write3D_sanitize_call

SpecSanitize == InitSanitize /\ [][NextSanitize]_vars

\* ------------------------------------------------------------------------
\* Reading the input back by composite key
\* ------------------------------------------------------------------------
\* Schema-A: key = <<file index, group key, entry index, step index>>
StepAt(key) ==
  LET doc == dir[key[1] + 1].content
      g == CHOOSE h \in 1..Len(doc.groups) : doc.groups[h].key = key[2]
  IN doc.groups[g].entries.items[key[3] + 1].steps.items[key[4] + 1]

\* Schema-B: key = <<file ordinal, 1-based entry index>>
EntryAt(key) == dir[key[1] + 1].content.entries.items[key[2]]

VisitedBy(t) == {v[2] : v \in {w \in visited : w[1] = t}}

VisitedIn(t, i) == {k \in VisitedBy(t) : k[1] = i}

\* the run of tool t is past file i (0-based)
FileDone(t, i) ==
  \/ exit[t] # "none"
  \/ tool = t /\ pc = "files" /\ (index > i + 1 \/ (index = i + 1 /\ queue = <<>>))

SafeChars == AsciiLetters \cup AsciiDigits \cup {"_", "-"}

\* ------------------------------------------------------------------------
\* Claims
\* ------------------------------------------------------------------------

\* C1: Schema-A filename symmetry.  For every record for which both
\* 2D/makePOSCARs.py and 2D/writeIDPROP.py derive a filename, the two
\* filenames are equal, whatever the prefix given to makePOSCARs.py.
C1_FilenameSymmetryA ==
  schema = "A" =>
    \A i \in 1..Len(derived), j \in 1..Len(csv) :
      derived[i].key = csv[j].key => derived[i].name = csv[j].name

\* C2: Schema-B filename symmetry.  For every entry for which both
\* 3D/makePOSCARs.py and 3D/writeIDPROP.py derive a filename (run with the
\* same prefix on the same directory), the two filenames are equal.
C2_FilenameSymmetryB ==
  schema = "B" =>
    \A i \in 1..Len(derived), j \in 1..Len(csv) :
      derived[i].key = csv[j].key => derived[i].name = csv[j].name

\* both tools have derived the name of an entry whose material identifier
\* is the empty string, under a prefix that is not the default
C2_Witness ==
  /\ schema = "B" /\ filename_prefix # POSCAR_
  /\ \E i \in 1..Len(derived), j \in 1..Len(csv) :
       /\ derived[i].key = csv[j].key
       /\ EntryAt(csv[j].key).data.kind = "dict"
       /\ EntryAt(csv[j].key).data.mat_id = Text(<<>>)

\* the structure or the label of the record at key is missing
ResolutionFailed(key) ==
  IF schema = "A"
    THEN ~Truthy(StepAt(key).structure) \/ IsNone(StepAt(key).energy)
    ELSE \/ ~Truthy(EntryAt(key).structure)
         \/ EntryAt(key).data.kind = "absent"
         \/ EntryAt(key).data.band_gap_dir.kind = "absent"
         \/ EntryAt(key).data.band_gap_ind.kind = "absent"

\* C3: skip accounting.  When a label emitter has finished, its counter is
\* the number of visited steps/entries whose structure or label is missing,
\* and the CSV holds one row for every other visited step/entry.
C3_SkipAccounting ==
  exit.write = "zero" =>
    /\ skipped = Cardinality({k \in VisitedBy("write") : ResolutionFailed(k)})
    /\ Len(csv) = Cardinality(VisitedBy("write")) - skipped

\* a file that gives its tool no other reason to stop than being itself
WellFormed(content) ==
  /\ content.kind = "object"
  /\ schema = "B" =>
       /\ Truthy(data_get_entries(content))
       /\ \A n \in 1..Len(content.entries.items) :
            write3D_label(content.entries.items[n]).kind # "TypeError"

\* C4: malformed file isolation.  In a batch in which a file is not valid
\* JSON and nothing else is wrong, every tool processes every other file
\* and ends with exit status 0.
C4_MalformedFileIsolation ==
  \A t \in {"make", "write"} :
    ( /\ exit[t] # "none"
      /\ mkdirOk
      /\ \E i \in 1..Len(dir) : dir[i].content = Malformed
      /\ \A i \in 1..Len(dir) :
           dir[i].content # Malformed => WellFormed(dir[i].content) )
    => /\ exit[t] = "zero"
       /\ \A i \in 1..Len(dir) :
            dir[i].content # Malformed => <<t, i - 1>> \in processed

\* C5: exit status.  Every tool exits non-zero exactly when no input file
\* matches the glob or the output directory cannot be created.
C5_ExitStatus ==
  \A t \in {"make", "write"} :
    exit[t] # "none" =>
      (exit[t] = "nonzero" <=> (json_files = <<>> \/ ~mkdirOk))

\* doc has G groups of E entries of S steps
IsFull(doc, G, E, S) ==
  /\ doc.kind = "object"
  /\ Len(doc.groups) = G
  /\ \A g \in 1..G :
       /\ doc.groups[g].entries.kind = "list"
       /\ Len(doc.groups[g].entries.items) = E
       /\ \A e \in 1..E :
            /\ doc.groups[g].entries.items[e].steps.kind = "list"
            /\ Len(doc.groups[g].entries.items[e].steps.items) = S

\* as IsFull, but entry e0 of group g0 has an empty steps list
IsFullBut(doc, G, E, S, g0, e0) ==
  /\ doc.kind = "object"
  /\ Len(doc.groups) = G
  /\ \A g \in 1..G :
       /\ doc.groups[g].entries.kind = "list"
       /\ Len(doc.groups[g].entries.items) = E
       /\ \A e \in 1..E :
            /\ doc.groups[g].entries.items[e].steps.kind = "list"
            /\ Len(doc.groups[g].entries.items[e].steps.items) =
                 IF <<g, e>> = <<g0, e0>> THEN 0 ELSE S

\* C6: traversal completeness, Schema-A.  Once a 2D tool is past a document
\* of G groups, E entries per group and S steps per entry, it has visited
\* G*E*S steps of it; if one entry of such a document has an empty steps
\* list, it has visited G*E*S - S steps: all those of the other entries.
\* Every visited step ended as an emitted record or as a counted skip.
C6_TraversalCompleteness ==
  schema = "A" =>
    /\ \A t \in {"make", "write"}, i \in 1..Len(dir) :
         (<<t, i - 1>> \in processed /\ FileDone(t, i - 1)) =>
           LET doc == dir[i].content
           IN \A G \in 1..MaxGroups, E \in 1..MaxEntries, S \in 1..MaxSteps :
                /\ IsFull(doc, G, E, S) =>
                     Cardinality(VisitedIn(t, i - 1)) = G * E * S
                /\ \A g0 \in 1..G, e0 \in 1..E :
                     IsFullBut(doc, G, E, S, g0, e0) =>
                       /\ Cardinality(VisitedIn(t, i - 1)) = G * E * S - S
                       /\ VisitedIn(t, i - 1) =
                            {<<i - 1, doc.groups[c[1]].key, c[2] - 1, c[3] - 1>> :
                               c \in {d \in (1..G) \X (1..E) \X (1..S) :
                                        <<d[1], d[2]>> # <<g0, e0>>}}
    /\ Cardinality(VisitedBy("make")) = Len(derived) + skipLog.make
    /\ Cardinality(VisitedBy("write")) = Len(csv) + skipped

\* both tools are past a document of 2 groups, 2 entries, 2 steps whose
\* first entry has no steps, and the label emitter visited 6 steps of it
C6_Witness ==
  /\ schema = "A" /\ exit.write = "zero" /\ Len(dir) = 1
  /\ IsFullBut(dir[1].content, 2, 2, 2, 1, 1)
  /\ Cardinality(VisitedIn("write", 0)) = 6
  /\ Cardinality(VisitedIn("make", 0)) = 6

\* [A-Za-z0-9_-]+ followed by .vasp
IsSafeName(name) ==
  /\ Len(name) > Len(dot_vasp)
  /\ SubSeq(name, Len(name) - Len(dot_vasp) + 1, Len(name)) = dot_vasp
  /\ \A i \in 1..(Len(name) - Len(dot_vasp)) : name[i] \in SafeChars

\* C7: derived filename safety.  Every filename a tool derives is a
\* non-empty run of characters of [A-Za-z0-9_-] followed by ".vasp".
C7_FilenameSafe ==
  /\ \A i \in 1..Len(derived) : IsSafeName(derived[i].name)
  /\ \A j \in 1..Len(csv) : IsSafeName(csv[j].name)

\* the label of the record at key is present and a number
LabelNumeric(key) ==
  IF schema = "A"
    THEN StepAt(key).energy.kind = "num"
    ELSE /\ EntryAt(key).data.kind = "dict"
         /\ EntryAt(key).data.band_gap_dir.kind = "num"
         /\ EntryAt(key).data.band_gap_ind.kind = "num"

\* C8: label validity.  Every CSV row belongs to a record whose label is
\* present and numeric, and every visited record whose label is absent, null
\* or not a number has been counted as skipped.
C8_LabelValidity ==
  /\ \A j \in 1..Len(csv) : LabelNumeric(csv[j].key)
  /\ Cardinality({k \in VisitedBy("write") : ~LabelNumeric(k)}) <= skipped

\* C9: sanitizer idempotence.  For each of the four copies and every input
\* string, sanitizing the sanitized string gives the sanitized string.
C9_SanitizerIdempotent ==
  Len(sanTrace) = 3 => sanTrace[3] = sanTrace[2]

\* a copy has been applied twice to a string in which it replaced a character
C9_Witness ==
  /\ Len(sanTrace) = 3
  /\ sanTrace[2] # sanTrace[1]
  /\ \E i \in 1..Len(sanTrace[1]) : sanTrace[1][i] = "U+00E9"

\* C10, as stated: sanitize_filename never returns the empty string (the
\* empty string is mapped to a non-empty placeholder), so no sanitized
\* component of a derived filename is empty.
C10_SanitizerPlaceholder ==
  /\ \A c \in sanCalls : c.res # <<>>
  /\ \A i \in 1..Len(derived) : \A n \in 1..Len(derived[i].parts) :
       derived[i].parts[n] # <<>>
  /\ \A j \in 1..Len(csv) : \A n \in 1..Len(csv[j].parts) :
       csv[j].parts[n] # <<>>

\* C10, amended: sanitize_filename maps the empty string to the empty
\* string; the callers keep the components non-empty: an empty group key
\* becomes the placeholder key_empty in the 2D tools, and no sanitized
\* component of a derived filename (base name, group key, material
\* identifier) is empty.
C10_ComponentsNonEmpty ==
  /\ \A c \in sanCalls : c.arg = <<>> => c.res = <<>>
  /\ \A i \in 1..Len(derived) :
       /\ \A n \in 1..Len(derived[i].parts) : derived[i].parts[n] # <<>>
       /\ (schema = "A" /\ derived[i].key[2] = <<>>) => derived[i].parts[2] = key_empty
  /\ \A j \in 1..Len(csv) :
       /\ \A n \in 1..Len(csv[j].parts) : csv[j].parts[n] # <<>>
       /\ (schema = "A" /\ csv[j].key[2] = <<>>) => csv[j].parts[2] = key_empty

\* the geometry emitter has named a step of a group whose key is the empty
\* string: sanitize_filename returned "" and the component is key_empty
C10_Witness ==
  /\ schema = "A"
  /\ [arg |-> <<>>, res |-> <<>>] \in sanCalls
  /\ \E i \in 1..Len(derived) :
       derived[i].key[2] = <<>> /\ derived[i].parts[2] = key_empty

\* file i of the listing is a JSON document whose 'entries' is absent or empty
NoEntries(i) ==
  /\ dir[i].content.kind = "object"
  /\ ~Truthy(data_get_entries(dir[i].content))

\* s is an initial part of u
IsPrefix(s, u) == Len(s) <= Len(u) /\ SubSeq(u, 1, Len(s)) = s

\* C11: Schema-B, missing entries abort the batch.  The step in which a 3D
\* tool takes an input file whose 'entries' is absent or empty ends the run
\* with a non-zero exit status and changes no output; neither that file nor
\* any file after it in sorted order is ever processed by the tool; and the
\* geometry files and CSV rows produced before stay as they are.
C11_MissingEntriesAbort ==
  /\ [][ ( /\ schema = "B" /\ pc = "files" /\ queue = <<>>
           /\ index < Len(dir) /\ NoEntries(index + 1) )
         => ( /\ pc' = "exited" /\ exit'[tool] = "nonzero"
              /\ derived' = derived /\ files' = files /\ csv' = csv
              /\ processed' = processed ) ]_vars
  /\ [][ IsPrefix(derived, derived') /\ IsPrefix(csv, csv')
         /\ files \subseteq files' ]_vars
  /\ [](schema = "B" =>
          \A t \in {"make", "write"}, i \in 1..Len(dir) :
            NoEntries(i) =>
              \A j \in i..Len(dir) : <<t, j - 1>> \notin processed)

\* both 3D tools have stopped with a non-zero status at a second file
\* without 'entries': the geometry file and the CSV row of the first file
\* are there, and the third file, a good document, was processed by neither
C11_Witness ==
  /\ schema = "B" /\ Len(dir) = 3
  /\ NoEntries(2) /\ dir[1].content.kind = "object" /\ dir[3].content.kind = "object"
  /\ ~NoEntries(1) /\ ~NoEntries(3)
  /\ exit = [make |-> "nonzero", write |-> "nonzero"]
  /\ files # {} /\ csv # <<>>
  /\ processed = {<<"make", 0>>, <<"write", 0>>}

\* the records of s with different composite keys have different filenames
UniqueNames(s) ==
  \A a, b \in 1..Len(s) : s[a].key # s[b].key => s[a].name # s[b].name

\* C12: filename uniqueness within a run.  Two records with different
\* composite keys (file, group key, entry index, step index in Schema-A;
\* file ordinal, entry index in Schema-B) never derive the same filename,
\* neither among the geometry files of a run nor among its CSV keys.
C12_FilenameUniqueness ==
  /\ UniqueNames(derived)
  /\ UniqueNames(csv)

\* both tools of the schema have run to their end on the directory
BothRan == exit.make # "none" /\ exit.write # "none"

\* the label emitter was given the prefix of the geometry emitter: the 2D
\* label emitter has no prefix option and always uses POSCAR_
SamePrefix == schema = "A" => filename_prefix = POSCAR_

\* C13: label rows reference existing geometry.  After both tools have run
\* on the same input directory with the same prefix (and the output
\* directory could be created), every filename in a CSV row is the name the
\* geometry emitter derived for the record of that row, and the geometry
\* emitter wrote a file of that name; so a record whose structure is missing
\* or cannot be reconstructed has no CSV row.
C13_RowsReferenceGeometry ==
  (BothRan /\ mkdirOk /\ SamePrefix) =>
    \A r \in 1..Len(csv) :
      \E d \in 1..Len(derived) :
        /\ derived[d].key = csv[r].key
        /\ derived[d].name = csv[r].name
        /\ derived[d].name \in files

====
